---- MODULE Spec2Model ----
(***************************************************************************)
(* State-machine model of the webcomic reader in src/assets/js/app.js:     *)
(* manifest load, id ordering, the reader cursor with its prev/next/latest *)
(* buttons, the location fragment, the disclaimer gate and the keyboard    *)
(* and touch handlers.                                                     *)
(*                                                                         *)
(* JavaScript strings are sequences of one-character strings.  An entry id *)
(* is a record [k, s]: k = "str" (a JSON string s), k = "num" (a JSON      *)
(* number whose decimal text is s) or k = "null" (id null or absent).      *)
(* The page's static markup is not part of the sources; every element the  *)
(* script looks up by id is taken to exist, and no control carries an      *)
(* "open" or "aria-disabled" attribute before the script sets it.          *)
(***************************************************************************)
EXTENDS Integers, Sequences, FiniteSets, TLC

VARIABLES
    manifest,      \* comics array of comics.json as served (unsorted)
    storageOk,     \* FALSE: localStorage access throws
    stored,        \* localStorage[DISCLAIMER_KEY] = 'true'
    pc,            \* position of init(): start, loading, ready, empty, failed
    comics,        \* STATE.comics
    currentIndex,  \* STATE.currentIndex (0-based)
    shown,         \* index of the entry the reader pane displays, -1 = none yet
    readerOpen,    \* #reader has the open attribute
    discOpen,      \* #disclaimer has the open attribute
    btnPrev,       \* [disabled, onclick] of #btnPrev
    btnNext,       \* [disabled, onclick] of #btnNext
    btnLatest,     \* [disabled, onclick] of #btnLatest
    hash,          \* location fragment, without the leading #
    historyLen,    \* number of session history entries
    rendered,      \* regions the script has written
    wired,         \* listeners the script has attached
    touchActive,   \* swipe in progress
    touchStartX,
    touchStartY,
    acceptedOnce   \* history: acceptDisclaimer() has run since the first page load

vars == <<manifest, storageOk, stored, pc, comics, currentIndex, shown, readerOpen,
          discOpen, btnPrev, btnNext, btnLatest, hash, historyLen, rendered, wired,
          touchActive, touchStartX, touchStartY, acceptedOnce>>

(***************************************************************************)
(* Bounds                                                                  *)
(***************************************************************************)
MaxComics == 3

MaxSortLen == 3

(***************************************************************************)
(* Strings and ids                                                         *)
(***************************************************************************)
Digits == <<"0", "1", "2", "3", "4", "5", "6", "7", "8", "9">>

IsDigit(ch) == \E i \in 1..10 : Digits[i] = ch

DigitVal(ch) == (CHOOSE i \in 1..10 : Digits[i] = ch) - 1

StrId(s) == [k |-> "str", s |-> s]

NumId(s) == [k |-> "num", s |-> s]

NullId == [k |-> "null", s |-> <<>>]

\* String(id)
Str(id) == IF id.k = "null" THEN <<"n", "u", "l", "l">> ELSE id.s

\* String(id ?? '')
StrOrEmpty(id) == IF id.k = "null" THEN <<>> ELSE id.s

NaN == -1

\* index of the first digit of s at or after i, 0 when there is none
RECURSIVE FirstDigitFrom(_, _)
FirstDigitFrom(s, i) ==
    IF i > Len(s) THEN 0
    ELSE IF IsDigit(s[i]) THEN i
    ELSE FirstDigitFrom(s, i + 1)

\* end of the digit run that starts at i
RECURSIVE DigitRunEnd(_, _)
DigitRunEnd(s, i) ==
    IF i < Len(s) /\ IsDigit(s[i + 1]) THEN DigitRunEnd(s, i + 1) ELSE i

\* parseInt(digits, 10)
RECURSIVE ParseInt(_)
ParseInt(ds) ==
    IF ds = <<>> THEN 0
    ELSE 10 * ParseInt(SubSeq(ds, 1, Len(ds) - 1)) + DigitVal(ds[Len(ds)])

idToNumber(id) ==
    LET s == StrOrEmpty(id)
        i == FirstDigitFrom(s, 1)
    IN  IF i = 0 THEN NaN ELSE ParseInt(SubSeq(s, i, DigitRunEnd(s, i)))

\* a test that takes NaN for a number, as typeof does
IsNumberType(n) == TRUE

IsFinite(n) == n # NaN

(***************************************************************************)
(* String.prototype.localeCompare(other, undefined, {numeric: true}): root *)
(* collation with digit runs compared by value.  A string is cut into      *)
(* collation keys <<class, weight>>: punctuation and symbols (class 0)     *)
(* sort before numbers (class 1), numbers before letters (class 2).        *)
(***************************************************************************)
Letters == <<"a", "b", "c", "d", "e", "f", "g", "h", "i", "j", "k", "l", "m",
             "n", "o", "p", "q", "r", "s", "t", "u", "v", "w", "x", "y", "z">>

Symbols == <<" ", "&", "%", "+", "=">>

IndexIn(seq, ch) == CHOOSE i \in 1..Len(seq) : seq[i] = ch

CharKey(ch) ==
    IF \E i \in 1..Len(Symbols) : Symbols[i] = ch THEN <<0, IndexIn(Symbols, ch)>>
    ELSE <<2, IndexIn(Letters, ch)>>

RECURSIVE CollationKeys(_, _)
CollationKeys(s, i) ==
    IF i > Len(s) THEN <<>>
    ELSE IF IsDigit(s[i])
         THEN LET e == DigitRunEnd(s, i)
              IN  <<<<1, ParseInt(SubSeq(s, i, e))>>>> \o CollationKeys(s, e + 1)
         ELSE <<CharKey(s[i])>> \o CollationKeys(s, i + 1)

RECURSIVE CompareKeys(_, _)
CompareKeys(x, y) ==
    IF x = <<>> /\ y = <<>> THEN 0
    ELSE IF x = <<>> THEN -1
    ELSE IF y = <<>> THEN 1
    ELSE IF x[1][1] # y[1][1] THEN (IF x[1][1] < y[1][1] THEN -1 ELSE 1)
    ELSE IF x[1][2] # y[1][2] THEN (IF x[1][2] < y[1][2] THEN -1 ELSE 1)
    ELSE CompareKeys(Tail(x), Tail(y))

localeCompareNumeric(x, y) == CompareKeys(CollationKeys(x, 1), CollationKeys(y, 1))

\* the comparator with its arguments the wrong way round
byIdDescending(a, b) ==
    LET na == idToNumber(b.id)
        nb == idToNumber(a.id)
    IN  IF IsFinite(na) /\ IsFinite(nb) /\ na # nb THEN na - nb
        ELSE IF IsFinite(na) /\ ~IsFinite(nb) THEN -1
        ELSE IF ~IsFinite(na) /\ IsFinite(nb) THEN 1
        ELSE localeCompareNumeric(StrOrEmpty(b.id), StrOrEmpty(a.id))

\* the comparator handed to Array.prototype.sort: negative, zero or positive
byIdAscending(a, b) ==
    LET na == idToNumber(a.id)
        nb == idToNumber(b.id)
        aHas == IsFinite(na)
        bHas == IsFinite(nb)
    IN  IF aHas /\ bHas /\ na # nb THEN na - nb
        ELSE IF aHas /\ ~bHas THEN -1
        ELSE IF ~aHas /\ bHas THEN 1
        ELSE localeCompareNumeric(StrOrEmpty(a.id), StrOrEmpty(b.id))

\* Array.prototype.sort is stable: x goes after every element it does not precede
RECURSIVE InsertSorted(_, _)
InsertSorted(sorted, x) ==
    IF sorted = <<>> THEN <<x>>
    ELSE IF byIdAscending(x, sorted[1]) < 0 THEN <<x>> \o sorted
    ELSE <<sorted[1]>> \o InsertSorted(Tail(sorted), x)

RECURSIVE SortComics(_)
SortComics(list) ==
    IF list = <<>> THEN <<>>
    ELSE InsertSorted(SortComics(SubSeq(list, 1, Len(list) - 1)), list[Len(list)])

(***************************************************************************)
(* Fragment encoding and decoding                                          *)
(***************************************************************************)
\* encodeURIComponent on one character: letters and digits are kept, the
\* reserved characters of the model's alphabet become %XX
EncodeChar(ch) ==
    CASE ch = " " -> <<"%", "2", "0">>
      [] ch = "%" -> <<"%", "2", "5">>
      [] ch = "&" -> <<"%", "2", "6">>
      [] ch = "+" -> <<"%", "2", "B">>
      [] ch = "=" -> <<"%", "3", "D">>
      [] OTHER    -> <<ch>>

RECURSIVE encodeURIComponent(_)
encodeURIComponent(s) ==
    IF s = <<>> THEN <<>> ELSE EncodeChar(s[1]) \o encodeURIComponent(Tail(s))

\* the character a %XX escape stands for, "" when XX is not an escape of the alphabet
PercentChar(h1, h2) ==
    CASE h1 = "2" /\ h2 = "0" -> " "
      [] h1 = "2" /\ h2 = "5" -> "%"
      [] h1 = "2" /\ h2 = "6" -> "&"
      [] h1 = "2" /\ h2 = "B" -> "+"
      [] h1 = "3" /\ h2 = "D" -> "="
      [] OTHER -> ""

\* URLSearchParams decoding of a name or a value: + is a space, %XX is unescaped
RECURSIVE FormDecode(_)
FormDecode(s) ==
    IF s = <<>> THEN <<>>
    ELSE IF s[1] = "+" THEN <<" ">> \o FormDecode(Tail(s))
    ELSE IF s[1] = "%" /\ Len(s) >= 3 /\ PercentChar(s[2], s[3]) # ""
         THEN <<PercentChar(s[2], s[3])>> \o FormDecode(SubSeq(s, 4, Len(s)))
    ELSE <<s[1]>> \o FormDecode(Tail(s))

\* index of the first ch in s at or after i, Len(s) + 1 when there is none
RECURSIVE IndexOfFrom(_, _, _)
IndexOfFrom(s, ch, i) ==
    IF i > Len(s) THEN Len(s) + 1
    ELSE IF s[i] = ch THEN i
    ELSE IndexOfFrom(s, ch, i + 1)

\* URLSearchParams: the pieces of s between "&"
RECURSIVE SplitAmp(_)
SplitAmp(s) ==
    LET i == IndexOfFrom(s, "&", 1)
    IN  IF i > Len(s) THEN <<s>>
        ELSE <<SubSeq(s, 1, i - 1)>> \o SplitAmp(SubSeq(s, i + 1, Len(s)))

PairName(piece) == FormDecode(SubSeq(piece, 1, IndexOfFrom(piece, "=", 1) - 1))

PairValue(piece) == FormDecode(SubSeq(piece, IndexOfFrom(piece, "=", 1) + 1, Len(piece)))

\* what URLSearchParams.get returns for a name that is absent
NullStr == <<"<null>">>

\* new URLSearchParams(h).get('c'): the value of the first pair named c
RECURSIVE GetParamC(_)
GetParamC(pieces) ==
    IF pieces = <<>> THEN NullStr
    ELSE IF pieces[1] # <<>> /\ PairName(pieces[1]) = <<"c">> THEN PairValue(pieces[1])
    ELSE GetParamC(Tail(pieces))

\* getHashComic() on the fragment h
getHashComic(h) == GetParamC(SplitAmp(h))

(***************************************************************************)
(* HTML escaping of a tile's data-open attribute                           *)
(***************************************************************************)
\* escapeHtml on one character; the alphabet's only escaped character is &
EscapeChar(ch) == IF ch = "&" THEN <<"&", "a", "m", "p", ";">> ELSE <<ch>>

RECURSIVE EscapeStr(_)
EscapeStr(s) == IF s = <<>> THEN <<>> ELSE EscapeChar(s[1]) \o EscapeStr(Tail(s))

\* escapeHtml(c.id) throws for a number other than 0: (s || '').replace is not a function
EscapeThrows(id) == id.k = "num" /\ ParseInt(id.s) # 0

\* escapeHtml(c.id): (s || '') is '' for null and for 0
escapeHtml(id) == IF id.k = "str" THEN EscapeStr(id.s) ELSE <<>>

\* the HTML parser's reading of an attribute value: &amp; is &
RECURSIVE AttrValue(_)
AttrValue(s) ==
    IF s = <<>> THEN <<>>
    ELSE IF Len(s) >= 5 /\ SubSeq(s, 1, 5) = <<"&", "a", "m", "p", ";">>
         THEN <<"&">> \o AttrValue(SubSeq(s, 6, Len(s)))
    ELSE <<s[1]>> \o AttrValue(Tail(s))

\* btn.getAttribute('data-open') of the tile rendered for an entry
DataOpen(entry) == AttrValue(escapeHtml(entry.id))

(***************************************************************************)
(* Inputs                                                                  *)
(***************************************************************************)
\* ids of the manifests: numeric order against string order ("2", "10"), a
\* reserved character and no digits ("a&"), the empty string, a JSON number,
\* a missing id
IdPool ==
    << StrId(<<"2">>), StrId(<<"1", "0">>), StrId(<<"a", "&">>), StrId(<<>>),
       NumId(<<"1", "0">>), NullId >>

Entry(i) == [id |-> IdPool[i]]

\* one manifest per multiset of at most n pool ids, listed against the sorted order
RECURSIVE ManifestsOfLen(_, _)
ManifestsOfLen(n, top) ==
    IF n = 0 THEN {<<>>}
    ELSE UNION {{<<Entry(i)>> \o m : m \in ManifestsOfLen(n - 1, i)} : i \in 1..top}

Manifests == UNION {ManifestsOfLen(n, Len(IdPool)) : n \in 0..MaxComics}

\* fragments the page may be loaded with: none, a deep link, a link to no entry
InitHashes == {<<>>, <<"c", "=", "1", "0">>, <<"c", "=", "9">>}

Keys == {"Escape", "ArrowLeft", "ArrowRight", "Enter"}

StartXs == {0, 10}

StartYs == {0}

EndXs == {-60, -50, 0, 60, 69, 70}

EndYs == {0, 60, 61}

SwipeThreshold == 60

AllListeners ==
    {"latestOpen", "tiles", "discAccept", "openDisclaimer", "disclaimer", "btnStart",
     "btnOpenLatest", "btnClose", "reader", "keydown", "touch"}

\* an early return that comes after the keyboard and touch listeners
ListenersAfterKeys == {"keydown", "touch"}

\* listeners attached before init() returns on an empty collection
ListenersOnEmpty == {}

\* what the fetch of comics.json can get: the manifest as served, a response
\* that is not ok, a body that is not JSON, a body whose comics is not a
\* sequence ({"comics": 5}), a body with an entry whose title is not a string
\* ({"comics": [{"title": 5}]})
Responses == {"ok", "notOk", "badJson", "badShape", "badEntry"}

NoButton == [disabled |-> FALSE, onclick |-> <<>>]

(***************************************************************************)
(* Helpers of the script                                                   *)
(***************************************************************************)
\* a gate test that never finds the acknowledgment
hasAcceptedNever == FALSE

\* hasAcceptedDisclaimer(): a throwing localStorage reads as not accepted
hasAcceptedDisclaimer == storageOk /\ stored

\* setBtn that leaves the handler in place on a disabled button
setBtnKeepsHandler(enabled, target) == [disabled |-> ~enabled, onclick |-> <<target>>]

\* setBtn(id, enabled, onClick): the button's attribute and handler; the
\* handler is kept as <<id the closure captured>>, null as <<>>
setBtn(enabled, target) ==
    IF enabled THEN [disabled |-> FALSE, onclick |-> <<target>>]
    ELSE [disabled |-> TRUE, onclick |-> <<>>]

\* setHash without encodeURIComponent
setHashRaw(s) == <<"c", "=">> \o s

\* setHash(idOrKey): the fragment after history.replaceState
setHash(s) == <<"c", "=">> \o encodeURIComponent(s)

\* history.pushState adds a history entry
pushState(n) == n + 1

\* history.replaceState keeps the number of history entries
replaceState(n) == n

\* findIndex that returns the last match
findLastIndex(cs, s) ==
    IF \E i \in 1..Len(cs) : Str(cs[i].id) = s
    THEN (CHOOSE i \in 1..Len(cs) :
             Str(cs[i].id) = s /\ \A j \in (i + 1)..Len(cs) : Str(cs[j].id) # s) - 1
    ELSE -1

\* STATE.comics.findIndex(c => String(c.id) === String(id)), 0-based, -1 on a miss
findIndex(cs, s) ==
    IF \E i \in 1..Len(cs) : Str(cs[i].id) = s
    THEN (CHOOSE i \in 1..Len(cs) :
             Str(cs[i].id) = s /\ \A j \in 1..(i - 1) : Str(cs[j].id) # s) - 1
    ELSE -1

\* a neighbour test that takes index 0 for "no entry"
HasEntryTruthyIndex(cs, i) == i > 0 /\ i < Len(cs)

\* !!STATE.comics[i] for a 0-based i
HasEntry(cs, i) == i >= 0 /\ i < Len(cs)

\* String(STATE.comics[i].id) for a 0-based i
IdAt(cs, i) == Str(cs[i + 1].id)

cursorVars == <<currentIndex, shown, btnPrev, btnNext, btnLatest, hash, historyLen>>

touchVars == <<touchActive, touchStartX, touchStartY>>

\* renderReader() with STATE.comics = cs and STATE.currentIndex = idx
renderReader(cs, idx) ==
    /\ shown' = idx
    /\ btnPrev' = setBtn(HasEntry(cs, idx - 1),
                         IF HasEntry(cs, idx - 1) THEN IdAt(cs, idx - 1) ELSE <<>>)
    /\ btnNext' = setBtn(HasEntry(cs, idx + 1),
                         IF HasEntry(cs, idx + 1) THEN IdAt(cs, idx + 1) ELSE <<>>)
    /\ btnLatest' = setBtn(HasEntry(cs, Len(cs) - 1),
                           IF HasEntry(cs, Len(cs) - 1) THEN IdAt(cs, Len(cs) - 1) ELSE <<>>)

\* openComicById without the early return on a miss
openComicByIdNoGuard(cs, s) ==
    /\ currentIndex' = findIndex(cs, s)
    /\ renderReader(cs, findIndex(cs, s))
    /\ hash' = setHash(s)
    /\ historyLen' = replaceState(historyLen)
    /\ readerOpen' = TRUE

\* openComicById(id) with STATE.comics = cs; s is String(id)
openComicById(cs, s) ==
    LET idx == findIndex(cs, s)
    IN  IF idx = -1
        THEN UNCHANGED <<cursorVars, readerOpen>>
        ELSE /\ currentIndex' = idx
             /\ renderReader(cs, idx)
             /\ hash' = setHash(s)
             /\ historyLen' = replaceState(historyLen)
             /\ readerOpen' = TRUE

\* the index the prev handler leaves in STATE.currentIndex
PrevIndex(i) == i - 1

\* a next handler that skips an entry
NextIndexSkips(i) == i + 2

\* the index the next handler leaves in STATE.currentIndex
NextIndex(i) == i + 1

\* #btnPrev.click(): its onclick handler, nothing when the handler is null
clickPrev ==
    IF btnPrev.onclick = <<>>
    THEN UNCHANGED cursorVars
    ELSE /\ currentIndex' = PrevIndex(currentIndex)
         /\ renderReader(comics, PrevIndex(currentIndex))
         /\ hash' = setHash(btnPrev.onclick[1])
         /\ historyLen' = replaceState(historyLen)

\* #btnNext.click()
clickNext ==
    IF btnNext.onclick = <<>>
    THEN UNCHANGED cursorVars
    ELSE /\ currentIndex' = NextIndex(currentIndex)
         /\ renderReader(comics, NextIndex(currentIndex))
         /\ hash' = setHash(btnNext.onclick[1])
         /\ historyLen' = replaceState(historyLen)

\* #btnLatest.click()
clickLatest ==
    IF btnLatest.onclick = <<>>
    THEN UNCHANGED cursorVars
    ELSE /\ currentIndex' = Len(comics) - 1
         /\ renderReader(comics, Len(comics) - 1)
         /\ hash' = setHash(btnLatest.onclick[1])
         /\ historyLen' = replaceState(historyLen)

(***************************************************************************)
(* Initial state: the page as served, before the script has run            *)
(***************************************************************************)
PageStart ==
    /\ pc = "start"
    /\ comics = <<>>
    /\ currentIndex = 0
    /\ shown = -1
    /\ readerOpen = FALSE
    /\ discOpen = FALSE
    /\ btnPrev = NoButton
    /\ btnNext = NoButton
    /\ btnLatest = NoButton
    /\ rendered = {}
    /\ wired = {}
    /\ touchActive = FALSE
    /\ touchStartX = 0
    /\ touchStartY = 0

Init ==
    /\ manifest \in Manifests
    /\ storageOk \in BOOLEAN
    /\ stored \in (IF storageOk THEN BOOLEAN ELSE {FALSE})
    /\ hash \in InitHashes
    /\ historyLen = 1
    /\ acceptedOnce = FALSE
    /\ PageStart

(***************************************************************************)
(* init()                                                                  *)
(***************************************************************************)
\* an init() that writes the header before it awaits the fetch
InitBeginRendersHeader ==
    /\ pc = "start"
    /\ pc' = "loading"
    /\ discOpen' = (IF ~hasAcceptedDisclaimer THEN TRUE ELSE discOpen)
    /\ rendered' = rendered \cup {"siteTitle"}
    /\ UNCHANGED <<manifest, acceptedOnce, storageOk, stored, comics, cursorVars, readerOpen,
                   wired, touchVars>>

\* init() up to the await: the disclaimer gate, then the fetch is under way
InitBegin ==
    /\ pc = "start"
    /\ pc' = "loading"
    /\ discOpen' = (IF ~hasAcceptedDisclaimer THEN TRUE ELSE discOpen)
    /\ UNCHANGED <<manifest, acceptedOnce, storageOk, stored, comics, cursorVars, readerOpen,
                   rendered, wired, touchVars>>

\* init() after the await, for the response r the fetch got
InitLoaded(r) ==
    /\ pc = "loading"
    /\ UNCHANGED <<manifest, acceptedOnce, storageOk, stored, discOpen, touchVars>>
    /\ IF r \in {"notOk", "badJson", "badShape"}
       THEN \* loadData() threw, or the spread of data.comics did: the catch block
            /\ pc' = "failed"
            /\ rendered' = rendered \cup {"pageError"}
            /\ UNCHANGED <<comics, wired, cursorVars, readerOpen>>
       ELSE IF r = "badEntry"
       THEN \* the header is written, displayTitle throws in renderLatest, the catch block
            /\ pc' = "failed"
            /\ comics' = <<[id |-> NullId]>>
            /\ rendered' = rendered \cup {"siteTitle", "pageError"}
            /\ UNCHANGED <<wired, cursorVars, readerOpen>>
       ELSE LET cs == SortComics(manifest)
            IN  /\ comics' = cs
                /\ IF cs = <<>>
                   THEN \* the early return
                        /\ pc' = "empty"
                        /\ rendered' = rendered \cup {"siteTitle", "emptyNote"}
                        /\ wired' = wired \cup ListenersOnEmpty
                        /\ UNCHANGED <<cursorVars, readerOpen>>
                   ELSE IF \E i \in 1..Len(cs) : EscapeThrows(cs[i].id)
                   THEN \* renderLatest ran, renderGrid threw, the catch block
                        /\ pc' = "failed"
                        /\ rendered' = rendered \cup {"siteTitle", "latest", "pageError"}
                        /\ wired' = wired \cup {"latestOpen"}
                        /\ UNCHANGED <<cursorVars, readerOpen>>
                   ELSE /\ pc' = "ready"
                        /\ rendered' = rendered \cup {"siteTitle", "latest", "grid"}
                        /\ wired' = AllListeners
                        /\ LET cid == getHashComic(hash)
                           IN  IF cid # NullStr /\ cid # <<>>
                               THEN openComicById(cs, cid)
                               ELSE UNCHANGED <<cursorVars, readerOpen>>

\* the browser reloads the page: the script state and the document start over,
\* the fragment, the history and localStorage stay
Reload ==
    /\ pc # "start"
    /\ pc' = "start"
    /\ comics' = <<>>
    /\ currentIndex' = 0
    /\ shown' = -1
    /\ readerOpen' = FALSE
    /\ discOpen' = FALSE
    /\ btnPrev' = NoButton
    /\ btnNext' = NoButton
    /\ btnLatest' = NoButton
    /\ rendered' = {}
    /\ wired' = {}
    /\ touchActive' = FALSE
    /\ touchStartX' = 0
    /\ touchStartY' = 0
    /\ UNCHANGED <<manifest, acceptedOnce, storageOk, stored, hash, historyLen>>

(***************************************************************************)
(* Click handlers                                                          *)
(***************************************************************************)
frameOpen == <<manifest, acceptedOnce, storageOk, stored, pc, comics, discOpen, rendered, wired,
               touchVars>>

\* a grid tile: openComicById(btn.getAttribute('data-open'))
TileClick(i) ==
    /\ "tiles" \in wired
    /\ i \in 1..Len(comics)
    /\ openComicById(comics, DataOpen(comics[i]))
    /\ UNCHANGED frameOpen

\* #latestOpen: openComicById(comic.id) for the last entry
LatestOpenClick ==
    /\ "latestOpen" \in wired
    /\ openComicById(comics, IdAt(comics, Len(comics) - 1))
    /\ UNCHANGED frameOpen

\* #btnStart: openComicById(STATE.comics[0].id)
BtnStartClick ==
    /\ "btnStart" \in wired
    /\ openComicById(comics, IdAt(comics, 0))
    /\ UNCHANGED frameOpen

\* #btnOpenLatest: openComicById(STATE.comics[STATE.comics.length - 1].id)
BtnOpenLatestClick ==
    /\ "btnOpenLatest" \in wired
    /\ openComicById(comics, IdAt(comics, Len(comics) - 1))
    /\ UNCHANGED frameOpen

\* a click on a control of the reader pane; the pane shows them while it is open
BtnPrevClick ==
    /\ readerOpen
    /\ clickPrev
    /\ UNCHANGED <<frameOpen, readerOpen>>

BtnNextClick ==
    /\ readerOpen
    /\ clickNext
    /\ UNCHANGED <<frameOpen, readerOpen>>

BtnLatestClick ==
    /\ readerOpen
    /\ clickLatest
    /\ UNCHANGED <<frameOpen, readerOpen>>

\* closeReader()
closeReader == readerOpen' = FALSE

\* #btnClose, or a click on the reader's backdrop
CloseClick ==
    /\ "btnClose" \in wired
    /\ readerOpen
    /\ closeReader
    /\ UNCHANGED <<frameOpen, cursorVars>>

\* #discAccept, a control of the open disclaimer: acceptDisclaimer(); a throwing
\* localStorage.setItem is swallowed
AcceptClick ==
    /\ "discAccept" \in wired
    /\ discOpen
    /\ stored' = (IF storageOk THEN TRUE ELSE stored)
    /\ discOpen' = FALSE
    /\ acceptedOnce' = TRUE
    /\ UNCHANGED <<manifest, storageOk, pc, comics, cursorVars, readerOpen, rendered,
                   wired, touchVars>>

\* #openDisclaimer: openDisclaimer()
OpenDisclaimerClick ==
    /\ "openDisclaimer" \in wired
    /\ discOpen' = TRUE
    /\ UNCHANGED <<manifest, acceptedOnce, storageOk, stored, pc, comics, cursorVars, readerOpen,
                   rendered, wired, touchVars>>

\* a backdrop listener that dismisses the disclaimer
DisclaimerBackdropCloses ==
    /\ "disclaimer" \in wired
    /\ discOpen
    /\ discOpen' = FALSE
    /\ UNCHANGED <<manifest, acceptedOnce, storageOk, stored, pc, comics, cursorVars, readerOpen,
                   rendered, wired, touchVars>>

\* a click on the disclaimer's backdrop: the listener does nothing
DisclaimerBackdropClick ==
    /\ "disclaimer" \in wired
    /\ discOpen
    /\ UNCHANGED vars

(***************************************************************************)
(* Keyboard and touch handlers                                             *)
(***************************************************************************)
\* the keydown listener without the disclaimer test: Escape always closes the reader
KeyDownNoGate(key) ==
    /\ "keydown" \in wired
    /\ UNCHANGED frameOpen
    /\ IF key = "Escape"
       THEN closeReader /\ UNCHANGED cursorVars
       ELSE IF ~readerOpen
       THEN UNCHANGED <<cursorVars, readerOpen>>
       ELSE /\ readerOpen' = readerOpen
            /\ IF key = "ArrowLeft" THEN clickPrev
               ELSE IF key = "ArrowRight" THEN clickNext
               ELSE UNCHANGED cursorVars

KeyDown(key) ==
    /\ "keydown" \in wired
    /\ UNCHANGED frameOpen
    /\ IF key = "Escape"
       THEN IF discOpen
            THEN UNCHANGED <<cursorVars, readerOpen>>
            ELSE closeReader /\ UNCHANGED cursorVars
       ELSE IF ~readerOpen
       THEN UNCHANGED <<cursorVars, readerOpen>>
       ELSE /\ readerOpen' = readerOpen
            /\ IF key = "ArrowLeft" THEN clickPrev
               ELSE IF key = "ArrowRight" THEN clickNext
               ELSE UNCHANGED cursorVars

TouchStart(x, y) ==
    /\ "touch" \in wired
    /\ UNCHANGED <<manifest, acceptedOnce, storageOk, stored, pc, comics, discOpen, rendered, wired,
                   cursorVars, readerOpen>>
    /\ IF ~readerOpen
       THEN UNCHANGED touchVars
       ELSE /\ touchStartX' = x
            /\ touchStartY' = y
            /\ touchActive' = TRUE

Abs(n) == IF n < 0 THEN -n ELSE n

\* a swipe test that wants more than the threshold and more across than along
IsSwipeStrict(dx, dy) == Abs(dx) > SwipeThreshold /\ Abs(dx) > Abs(dy)

\* the swipe test of touchend: far enough, and more across than along
IsSwipe(dx, dy) == ~(Abs(dx) < SwipeThreshold \/ Abs(dx) < Abs(dy))

TouchEnd(x, y) ==
    /\ "touch" \in wired
    /\ UNCHANGED <<manifest, acceptedOnce, storageOk, stored, pc, comics, discOpen, rendered, wired,
                   readerOpen, touchStartX, touchStartY>>
    /\ IF ~touchActive
       THEN UNCHANGED <<touchActive, cursorVars>>
       ELSE /\ touchActive' = FALSE
            /\ LET dx == x - touchStartX
                   dy == y - touchStartY
               IN  IF ~IsSwipe(dx, dy) THEN UNCHANGED cursorVars
                   ELSE IF dx < 0 THEN clickNext
                   ELSE clickPrev

Next ==
    \/ InitBegin
    \/ \E r \in Responses : InitLoaded(r)
    \/ Reload
    \/ \E key \in Keys : KeyDown(key)
    \/ \E x \in StartXs, y \in StartYs : TouchStart(x, y)
    \/ \E x \in EndXs, y \in EndYs : TouchEnd(x, y)
    \/ AcceptClick
    \/ OpenDisclaimerClick
    \/ DisclaimerBackdropClick
    \/ BtnPrevClick
    \/ BtnNextClick
    \/ BtnLatestClick
    \/ CloseClick
    \/ \E i \in 1..MaxComics : TileClick(i)
    \/ LatestOpenClick
    \/ BtnStartClick
    \/ BtnOpenLatestClick

Spec == Init /\ [][Next]_vars

(***************************************************************************)
(* The load alone, for every order of a manifest over a wider set of ids   *)
(***************************************************************************)
SortPool ==
    IdPool \o << StrId(<<"0", "2">>), StrId(<<"b", "7">>), StrId(<<"a">>) >>

RECURSIVE SeqsOfLen(_)
SeqsOfLen(n) ==
    IF n = 0 THEN {<<>>}
    ELSE UNION {{<<[id |-> SortPool[i]]>> \o m : m \in SeqsOfLen(n - 1)} :
                   i \in 1..Len(SortPool)}

SortInit ==
    /\ manifest \in UNION {SeqsOfLen(n) : n \in 0..MaxSortLen}
    /\ storageOk = TRUE
    /\ stored = FALSE
    /\ hash = <<>>
    /\ historyLen = 1
    /\ acceptedOnce = FALSE
    /\ PageStart

SortNext == InitBegin \/ InitLoaded("ok")

SortSpec == SortInit /\ [][SortNext]_vars

(***************************************************************************)
(* Claims                                                                  *)
(***************************************************************************)
\* the entry at the 0-based position i of the sorted collection
EntryAt(i) == comics[i + 1]

\* the fragment that encodes an id: c=<URL-encoded id>
HashFor(id) == <<"c", "=">> \o encodeURIComponent(Str(id))

\* no entry of cs has the id s, compared as strings
NoEntryWithId(cs, s) == \A i \in 1..Len(cs) : Str(cs[i].id) # s

\* C1: with a non-empty collection, whatever the user has done, the cursor
\* STATE.currentIndex is an integer in [0, length-1].
CursorInRange ==
    Len(comics) > 0 => currentIndex \in 0..(Len(comics) - 1)

\* C1 witness: the reader is open in the middle of a three-entry collection,
\* after a touch gesture that started at x = 10
CursorMovedWitness ==
    /\ readerOpen
    /\ Len(comics) = 3
    /\ currentIndex = 1
    /\ touchStartX = 10
    /\ ~touchActive

\* a step that runs openComicById with the id s (as a string)
OpensWith(s) ==
    \/ \E i \in 1..MaxComics : TileClick(i) /\ DataOpen(comics[i]) = s
    \/ LatestOpenClick /\ IdAt(comics, Len(comics) - 1) = s
    \/ BtnOpenLatestClick /\ IdAt(comics, Len(comics) - 1) = s
    \/ BtnStartClick /\ IdAt(comics, 0) = s
    \/ InitLoaded("ok") /\ pc' = "ready" /\ s # <<>> /\ getHashComic(hash) = s

\* prev is disabled exactly at index 0 and next exactly at the last index; a
\* disabled control has no handler and an enabled one has
ButtonsMatchCursor ==
    /\ btnPrev.disabled <=> (currentIndex = 0)
    /\ btnNext.disabled <=> (currentIndex = Len(comics) - 1)
    /\ btnPrev.disabled <=> (btnPrev.onclick = <<>>)
    /\ btnNext.disabled <=> (btnNext.onclick = <<>>)

\* C2 as stated: once the reader has been rendered, prev is disabled exactly
\* at index 0 and next exactly at the last index; opening the lowest-sorted id
\* disables prev and, with more than one entry, enables next; opening the
\* highest-sorted id disables next and enables prev.
NavButtonsAsStated ==
    [][/\ shown' # -1 => ButtonsMatchCursor'
       /\ (comics' # <<>> /\ OpensWith(IdAt(comics', 0)))
            => (btnPrev'.disabled /\ (Len(comics') > 1 => ~btnNext'.disabled))
       /\ (comics' # <<>> /\ OpensWith(IdAt(comics', Len(comics') - 1)))
            => (btnNext'.disabled /\ ~btnPrev'.disabled)]_vars

\* C2 amended: the same, with the highest-sorted id taken when there is more
\* than one entry and no other entry has that id.
NavButtonsMatchCursor ==
    [][/\ shown' # -1 => ButtonsMatchCursor'
       /\ (comics' # <<>> /\ OpensWith(IdAt(comics', 0)))
            => (btnPrev'.disabled /\ (Len(comics') > 1 => ~btnNext'.disabled))
       /\ (/\ Len(comics') > 1
           /\ OpensWith(IdAt(comics', Len(comics') - 1))
           /\ NoEntryWithId(SubSeq(comics', 1, Len(comics') - 1),
                            IdAt(comics', Len(comics') - 1)))
            => (btnNext'.disabled /\ ~btnPrev'.disabled)]_vars

\* C2 witness: the highest-sorted entry of three is open: next disabled, prev enabled
HighestOpenWitness ==
    /\ readerOpen
    /\ Len(comics) = 3
    /\ currentIndex = 2
    /\ btnNext.disabled
    /\ ~btnPrev.disabled
    /\ btnPrev.onclick = <<IdAt(comics, 1)>>

\* C3: once the reader has shown an entry, the pane shows the entry at the
\* cursor and the fragment is c=<URL-encoded id of that entry>; in particular
\* whenever the reader is open.
HashEncodesCursor ==
    (shown # -1 \/ readerOpen) =>
        /\ shown = currentIndex
        /\ HasEntry(comics, currentIndex)
        /\ hash = HashFor(EntryAt(currentIndex).id)

\* C3 witness: next has moved the cursor onto the entry whose id needs escaping
EscapedIdOpenWitness ==
    /\ readerOpen
    /\ currentIndex > 0
    /\ EntryAt(currentIndex).id = StrId(<<"a", "&">>)
    /\ hash = <<"c", "=", "a", "%", "2", "6">>

\* C4: round trip, for the entries a fragment can name (id not empty, shared
\* with no earlier entry): when the page is initialized with the fragment
\* that encodes the id of entry X, which is the fragment the reader leaves
\* while X is open, and the manifest loads, the reader opens with the cursor
\* on X.
DeepLinkReopensEntry ==
    [][(pc = "loading" /\ "siteTitle" \in rendered')
          => \A i \in 1..Len(comics') :
                (/\ hash = HashFor(comics'[i].id)
                 /\ Str(comics'[i].id) # <<>>
                 /\ NoEntryWithId(SubSeq(comics', 1, i - 1), Str(comics'[i].id)))
                    => (readerOpen' /\ currentIndex' = i - 1)]_vars

\* C5: openComicById with an id that no entry has is a no-op: a tile whose
\* data-open matches no entry changes nothing at all, and a deep link to no
\* entry leaves the cursor, the fragment, the reader and its buttons as they
\* were and shows no error.
OpenMissIsNoOp ==
    [][/\ \A i \in 1..MaxComics :
            (TileClick(i) /\ NoEntryWithId(comics, DataOpen(comics[i])))
                => UNCHANGED vars
       /\ (InitLoaded("ok") /\ pc' = "ready" /\ NoEntryWithId(comics', getHashComic(hash)))
            => (UNCHANGED <<cursorVars, readerOpen>> /\ "pageError" \notin rendered')]_vars

\* C5 witness: the page was loaded with a link to an id no entry has, the
\* grid is up and one of its tiles carries a data-open that matches no entry
OpenMissWitness ==
    /\ pc = "ready"
    /\ hash = <<"c", "=", "9">>
    /\ NoEntryWithId(comics, <<"9">>)
    /\ ~readerOpen
    /\ shown = -1
    /\ \E i \in 1..Len(comics) : NoEntryWithId(comics, DataOpen(comics[i]))

\* C8: with the disclaimer unacknowledged and open, Escape leaves the reader's
\* open state, the cursor and the disclaimer as they were.
EscapeKeepsGate ==
    [][(KeyDown("Escape") /\ discOpen /\ ~hasAcceptedDisclaimer)
          => UNCHANGED <<readerOpen, currentIndex, shown, hash, discOpen>>]_vars

\* C8 witness: a deep link opened the reader under the unacknowledged gate
\* and the keydown listener is attached
ReaderUnderGateWitness ==
    /\ "keydown" \in wired
    /\ discOpen
    /\ ~hasAcceptedDisclaimer
    /\ readerOpen

\* C9: while the disclaimer is unacknowledged and its gate open, ArrowLeft
\* and ArrowRight change neither the cursor, the displayed entry nor the
\* fragment.
ArrowsSuppressedUnderGate ==
    [][\A key \in {"ArrowLeft", "ArrowRight"} :
          (KeyDown(key) /\ discOpen /\ ~hasAcceptedDisclaimer)
              => UNCHANGED <<currentIndex, shown, hash>>]_vars

\* C10 as stated: after initialization has started, an unpersisted
\* acknowledgment means an open gate; a backdrop click or Escape never closes
\* the gate; the gate closes only in a step that leaves the acknowledgment
\* persisted.
GateOpenUntilPersisted ==
    [][/\ (pc' # "start" /\ ~stored') => discOpen'
       /\ (DisclaimerBackdropClick \/ KeyDown("Escape")) => (discOpen' = discOpen)
       /\ (pc' # "start" /\ discOpen /\ ~discOpen') => stored']_vars

\* C10 amended: the same while localStorage works; with a throwing
\* localStorage the gate still closes only by the accept control.
GateOpenUntilAccepted ==
    [][/\ (pc' # "start" /\ storageOk /\ ~stored') => discOpen'
       /\ (DisclaimerBackdropClick \/ KeyDown("Escape")) => (discOpen' = discOpen)
       /\ (pc' # "start" /\ discOpen /\ ~discOpen')
            => (AcceptClick /\ (storageOk => stored'))]_vars

\* C10 witness: the page is up, nothing is persisted and the gate is open
GateOpenWitness ==
    /\ pc = "ready"
    /\ storageOk
    /\ ~stored
    /\ discOpen

\* C11 as stated: once the accept action has occurred the flag is set; no
\* step clears the flag; an initialization after an accept does not present
\* the gate.
FlagSetByAccept ==
    [][/\ acceptedOnce' => stored'
       /\ stored => stored'
       /\ (InitBegin /\ acceptedOnce) => ~discOpen']_vars

\* C11 amended: no step clears the flag; while localStorage works, the flag
\* is set once the accept action has occurred and an initialization with the
\* flag set does not present the gate; with a throwing localStorage the flag
\* is never set and every initialization presents the gate.
FlagSetByAcceptWhenStorable ==
    [][/\ (acceptedOnce' /\ storageOk) => stored'
       /\ stored => stored'
       /\ (InitBegin /\ stored) => (storageOk /\ ~discOpen')
       /\ (InitBegin /\ ~storageOk) => (~stored' /\ discOpen')]_vars

\* C11 witness: the accept action has occurred, the page was reloaded and its
\* initialization has passed the gate without presenting it
ReloadedAcknowledgedWitness ==
    /\ acceptedOnce
    /\ stored
    /\ pc = "loading"
    /\ ~discOpen

\* C12: when loading fails (the response is not ok, the body is not JSON, or
\* the body has not the structure of a manifest), initialization ends with
\* the diagnostic as the only thing written: no site title, no latest
\* summary, no grid, no reader content.
NoPartialRenderOnLoadFailure ==
    [][(\E r \in Responses \ {"ok"} : InitLoaded(r))
          => (rendered' = {"pageError"} /\ shown' = -1 /\ ~readerOpen')]_vars

\* the listeners of the reader, the latest view, the archive's quick actions,
\* the keyboard and the touch surface
NavListeners ==
    {"latestOpen", "tiles", "btnStart", "btnOpenLatest", "btnClose", "reader",
     "keydown", "touch"}

\* C13: in every state after a load with an empty collection, the empty
\* notice is shown, the reader is closed and has shown nothing, the cursor is
\* where the script started it, and no reader, latest, start, keyboard or
\* touch listener is attached; this with or without a deep link in the
\* fragment.
EmptyCollectionInert ==
    (comics = <<>> /\ "siteTitle" \in rendered) =>
        /\ pc = "empty"
        /\ "emptyNote" \in rendered
        /\ rendered \cap {"latest", "grid", "pageError"} = {}
        /\ ~readerOpen
        /\ shown = -1
        /\ currentIndex = 0
        /\ hash \in InitHashes
        /\ wired \cap NavListeners = {}

\* C13 witness: the manifest has no entries, the page was loaded with a deep
\* link and shows the empty notice
EmptyWithDeepLinkWitness ==
    /\ pc = "empty"
    /\ manifest = <<>>
    /\ hash = <<"c", "=", "1", "0">>
    /\ "emptyNote" \in rendered

\* what the document shows of the script's doing: nothing
NothingShown ==
    /\ rendered = {}
    /\ shown = -1
    /\ ~readerOpen

\* C14 as stated: until the fetch of the manifest has resolved or failed,
\* the script has changed no view, the modal dialogs included.
NoRenderBeforeLoad ==
    pc \in {"start", "loading"} => (NothingShown /\ ~discOpen)

\* C14 amended: until the fetch has resolved or failed the only change is the
\* disclaimer: it is open exactly when initialization has begun and found no
\* acknowledgment.
OnlyGateBeforeLoad ==
    /\ pc \in {"start", "loading"} => NothingShown
    /\ pc = "start" => ~discOpen
    /\ pc = "loading" => (discOpen <=> ~hasAcceptedDisclaimer)

\* C14 witness: the fetch is under way with the gate open, after an earlier
\* load of the page had rendered the reader at a later entry
GateBeforeLoadWitness ==
    /\ pc = "loading"
    /\ discOpen
    /\ hash = <<"c", "=", "a", "%", "2", "6">>

\* the 0-based position of the first entry that has the id of the last entry
FirstWithLastId ==
    (CHOOSE i \in 1..Len(comics) :
        /\ Str(comics[i].id) = IdAt(comics, Len(comics) - 1)
        /\ NoEntryWithId(SubSeq(comics, 1, i - 1), IdAt(comics, Len(comics) - 1))) - 1

\* the latest control is enabled and has its handler
LatestEnabled == ~btnLatest.disabled /\ btnLatest.onclick # <<>>

\* C15 as stated: once the reader has been rendered the latest control is
\* enabled; the latest control, the archive's open-latest action and the open
\* action of the latest summary put the cursor on length-1; open-first puts it
\* on 0.
LatestAndFirstAsStated ==
    [][/\ shown' # -1 => LatestEnabled'
       /\ BtnLatestClick => currentIndex' = Len(comics) - 1
       /\ (BtnOpenLatestClick \/ LatestOpenClick) =>
              (readerOpen' /\ currentIndex' = Len(comics) - 1)
       /\ BtnStartClick => (readerOpen' /\ currentIndex' = 0)]_vars

\* C15 amended: the same, with open-latest and the latest summary putting
\* the cursor on the first entry that has the id of the last one, which is
\* length-1 when no other entry has that id.
LatestAndFirst ==
    [][/\ shown' # -1 => LatestEnabled'
       /\ BtnLatestClick => currentIndex' = Len(comics) - 1
       /\ (BtnOpenLatestClick \/ LatestOpenClick) =>
              (readerOpen' /\ currentIndex' = FirstWithLastId)
       /\ BtnStartClick => (readerOpen' /\ currentIndex' = 0)]_vars

\* C15 witness: the reader shows the last of three entries, put there by the
\* latest control or an open-latest action from a closed reader or an earlier
\* entry; latest is still enabled
LatestOnLastWitness ==
    /\ pc = "ready"
    /\ readerOpen
    /\ Len(comics) = 3
    /\ currentIndex = 2
    /\ LatestEnabled
    /\ btnLatest.onclick = <<IdAt(comics, 2)>>
    /\ hash = HashFor(EntryAt(2).id)
    /\ touchStartX = 0

\* a step in which the user asks for the next entry: the next control, the
\* ArrowRight key with the reader open, a left swipe
NextRequest ==
    \/ BtnNextClick
    \/ KeyDown("ArrowRight") /\ readerOpen
    \/ \E x \in EndXs, y \in EndYs :
          /\ TouchEnd(x, y)
          /\ touchActive
          /\ Abs(x - touchStartX) >= SwipeThreshold
          /\ Abs(x - touchStartX) >= Abs(y - touchStartY)
          /\ x - touchStartX < 0

\* a step in which the user asks for the previous entry
PrevRequest ==
    \/ BtnPrevClick
    \/ KeyDown("ArrowLeft") /\ readerOpen
    \/ \E x \in EndXs, y \in EndYs :
          /\ TouchEnd(x, y)
          /\ touchActive
          /\ Abs(x - touchStartX) >= SwipeThreshold
          /\ Abs(x - touchStartX) >= Abs(y - touchStartY)
          /\ x - touchStartX > 0

\* C16: a next request moves the cursor by +1 when next is enabled and a prev
\* request by -1 when prev is enabled, and the pane and the fragment follow;
\* a request whose control is disabled leaves the cursor, the displayed entry
\* and the fragment as they were.
StepByOneOrStay ==
    [][/\ NextRequest =>
              IF btnNext.disabled
              THEN UNCHANGED <<currentIndex, shown, hash>>
              ELSE /\ currentIndex' = currentIndex + 1
                   /\ shown' = currentIndex'
                   /\ hash' = HashFor(EntryAt(currentIndex + 1).id)
       /\ PrevRequest =>
              IF btnPrev.disabled
              THEN UNCHANGED <<currentIndex, shown, hash>>
              ELSE /\ currentIndex' = currentIndex - 1
                   /\ shown' = currentIndex'
                   /\ hash' = HashFor(EntryAt(currentIndex - 1).id)]_vars

\* C16 witness: on the last of several entries, where next is disabled, with
\* a gesture begun at x = 10 that a left swipe can end
SwipeAtLastWitness ==
    /\ readerOpen
    /\ Len(comics) > 1
    /\ currentIndex = Len(comics) - 1
    /\ btnNext.disabled
    /\ touchActive
    /\ touchStartX = 10

\* a step that writes the fragment: openComicById on a hit, or a handler of
\* the prev, next or latest control
WritesHash ==
    \/ \E i \in 1..MaxComics :
          TileClick(i) /\ ~NoEntryWithId(comics, DataOpen(comics[i]))
    \/ LatestOpenClick
    \/ BtnStartClick
    \/ BtnOpenLatestClick
    \/ InitLoaded("ok") /\ readerOpen'
    \/ (NextRequest /\ ~btnNext.disabled)
    \/ (PrevRequest /\ ~btnPrev.disabled)
    \/ (BtnLatestClick /\ ~btnLatest.disabled)

\* C17: a step that writes the fragment leaves the number of history entries
\* as it was, and so does every other step: the number never changes.
HistoryLengthKept ==
    [][/\ WritesHash => historyLen' = historyLen
       /\ hash' # hash => WritesHash
       /\ historyLen' = historyLen]_vars

\* C17 witness: the reader has written the fragment of the first of three
\* entries, which the page was not loaded with, and is closed again; the
\* history still has its one entry
HashRewrittenWitness ==
    /\ pc = "ready"
    /\ Len(comics) = 3
    /\ ~readerOpen
    /\ shown = 0
    /\ currentIndex = 0
    /\ hash = HashFor(EntryAt(0).id)
    /\ hash \notin InitHashes
    /\ historyLen = 1

\* what a request for the next entry does to the cursor
NextRequested ==
    IF btnNext.disabled THEN UNCHANGED <<currentIndex, shown, hash>>
    ELSE currentIndex' = currentIndex + 1 /\ shown' = currentIndex'

\* what a request for the previous entry does to the cursor
PrevRequested ==
    IF btnPrev.disabled THEN UNCHANGED <<currentIndex, shown, hash>>
    ELSE currentIndex' = currentIndex - 1 /\ shown' = currentIndex'

\* C18: a gesture is under way only if its touchstart came while the reader
\* was open; the touchend of such a gesture with |dx| >= 60 and |dx| >= |dy|
\* requests next when dx < 0 and prev when dx > 0; every other touchend, and
\* every touchstart, leaves the cursor, the pane and the fragment as they were.
SwipeNavigates ==
    [][/\ (touchActive' /\ ~touchActive) => readerOpen
       /\ \A x \in StartXs, y \in StartYs :
             TouchStart(x, y) => UNCHANGED <<currentIndex, shown, hash>>
       /\ \A x \in EndXs, y \in EndYs :
             TouchEnd(x, y) =>
                 LET dx == x - touchStartX
                     dy == y - touchStartY
                 IN  IF touchActive /\ Abs(dx) >= 60 /\ Abs(dx) >= Abs(dy)
                     THEN IF dx < 0 THEN NextRequested ELSE PrevRequested
                     ELSE UNCHANGED <<currentIndex, shown, hash>>]_vars

\* C18 witness: a gesture that began at x = 10 with the reader open has
\* ended, and the reader is open on the last of three entries
SwipeDoneWitness ==
    /\ readerOpen
    /\ Len(comics) = 3
    /\ currentIndex = 2
    /\ btnNext.disabled
    /\ touchStartX = 10
    /\ ~touchActive

\* C19: within a page load, a step changes the cursor or the fragment only if
\* the reader is open before it or the step opens the reader.
CursorMovesOnlyWhenOpen ==
    [][(pc' # "start" /\ (currentIndex' # currentIndex \/ hash' # hash))
          => (readerOpen \/ readerOpen')]_vars

\* C20: once initialization is over, in whatever way, an open gate has its
\* accept control wired, so that an acceptance can close it.
OpenGateHasAccept ==
    (pc \in {"ready", "empty", "failed"} /\ discOpen) => "discAccept" \in wired

\* an id, as text, contains a digit
HasDigitRun(id) == \E i \in 1..Len(Str(id)) : IsDigit(Str(id)[i])

RECURSIVE Pow10(_)
Pow10(n) == IF n = 0 THEN 1 ELSE 10 * Pow10(n - 1)

RECURSIVE PlaceValueSum(_, _, _)
PlaceValueSum(s, i, j) ==
    IF i > j THEN 0 ELSE DigitVal(s[i]) * Pow10(j - i) + PlaceValueSum(s, i + 1, j)

\* the number written by the first run of digits of an id that has one
FirstRunValue(id) ==
    LET s == Str(id)
        i == CHOOSE a \in 1..Len(s) : IsDigit(s[a]) /\ \A b \in 1..(a - 1) : ~IsDigit(s[b])
        j == CHOOSE a \in i..Len(s) :
                 /\ \A b \in i..a : IsDigit(s[b])
                 /\ (a = Len(s) \/ ~IsDigit(s[a + 1]))
    IN  PlaceValueSum(s, i, j)

\* t holds the elements of s, each as many times
IsPermutation(s, t) ==
    /\ Len(s) = Len(t)
    /\ \A x \in {s[i] : i \in 1..Len(s)} \cup {t[i] : i \in 1..Len(t)} :
          Cardinality({i \in 1..Len(s) : s[i] = x})
              = Cardinality({i \in 1..Len(t) : t[i] = x})

\* C6: once the manifest has loaded, the collection holds the manifest's
\* entries, and of two entries whose ids both contain digits the one whose
\* first digit run is the smaller number comes first.
SortedByFirstDigitRun ==
    "siteTitle" \in rendered =>
        /\ IsPermutation(comics, manifest)
        /\ \A i, j \in 1..Len(comics) :
              (/\ HasDigitRun(comics[i].id)
               /\ HasDigitRun(comics[j].id)
               /\ FirstRunValue(comics[i].id) < FirstRunValue(comics[j].id))
                  => i < j

\* C6 witness: the manifest lists "10" before "2" (and "b7" somewhere); the
\* load has put 2 before 7 before 10
NumericOrderWitness ==
    /\ "siteTitle" \in rendered
    /\ Len(manifest) = 3
    /\ \E a, b \in 1..3 :
          a < b /\ manifest[a].id = StrId(<<"1", "0">>) /\ manifest[b].id = StrId(<<"2">>)
    /\ comics = << [id |-> StrId(<<"2">>)], [id |-> StrId(<<"b", "7">>)],
                   [id |-> StrId(<<"1", "0">>)] >>

\* C7: once the manifest has loaded, every entry whose id contains no digit
\* comes after every entry whose id contains one.
DigitlessIdsLast ==
    "siteTitle" \in rendered =>
        \A i, j \in 1..Len(comics) :
            (~HasDigitRun(comics[i].id) /\ HasDigitRun(comics[j].id)) => j < i

\* C7 witness: the manifest starts with an id without digits and has ids with
\* digits after it; the load has moved it behind them
DigitlessMovedWitness ==
    /\ "siteTitle" \in rendered
    /\ Len(manifest) = 3
    /\ ~HasDigitRun(manifest[1].id)
    /\ HasDigitRun(manifest[2].id)
    /\ HasDigitRun(manifest[3].id)
    /\ comics[3] = manifest[1]

====
